---- MODULE Spec2Model ----
(***************************************************************************)
(* Model of the synthcity tutorial notebooks.  Every notebook is a kernel  *)
(* session: a sequence of code cells, each a sequence of statements.  One  *)
(* action models one kind of statement.  A statement that raises aborts    *)
(* the rest of its cell; the kernel stays alive and the next cell runs     *)
(* (tutorials 1 and 9 contain cells that are meant to raise and carry on). *)
(***************************************************************************)
EXTENDS Integers, Sequences, FiniteSets, TLC

\* ---------------------------------------------------------------- bounds
MaxSubj == 3        \* largest num_subj explored (tutorial 6 uses 200)
MaxObs == 2         \* largest num_obs explored (tutorial 6 uses 10)
NumPrefixes == 2    \* number of distinct 6-character uuid prefixes explored
MaxSeed == 2        \* number of numpy generator seeds explored
MaxCount == 2       \* largest count passed to generate / rows sampled
MaxClasses == 2     \* number of entries of the MedNIST directory explored
LIMIT == 2          \* samples kept per class (tutorial 7 uses 1000)
MaxSuggest == 2     \* number of values suggest_all may draw for a hyperparameter

\* ------------------------------------------------------ generic helpers
Range(s) == {s[i] : i \in DOMAIN s}

RECURSIVE SelectIdx(_, _, _)
\* indices i of 1..n (ascending) for which keep[i] holds, as a sequence
SelectIdx(keep, i, n) ==
  IF i > n THEN <<>>
  ELSE IF keep[i] THEN <<i>> \o SelectIdx(keep, i + 1, n)
       ELSE SelectIdx(keep, i + 1, n)

RECURSIVE Repeat(_, _)
\* python list repetition  s * n
Repeat(s, n) == IF n <= 0 THEN <<>> ELSE s \o Repeat(s, n - 1)

RECURSIVE Unique(_)
\* pandas Series.unique(): the distinct values in order of first appearance
Unique(s) ==
  IF s = <<>> THEN <<>>
  ELSE LET r == Unique(SubSeq(s, 1, Len(s) - 1))
           x == s[Len(s)]
       IN IF x \in Range(r) THEN r ELSE Append(r, x)

RECURSIVE Lcg(_, _)
\* state of the numpy generator after k draws from seed s
Lcg(s, k) == IF k = 0 THEN s % 16 ELSE (5 * Lcg(s, k - 1) + 3) % 16

\* the k-th draw (k >= 1) of the generator seeded with s, reduced to 0..n-1
Rand(s, k, n) == (Lcg(s, k) \div 4) % n

\* ----------------------------------------------------------- dataframes
\* A dataframe is [index, columns, rows]: rows[i][j] is the value of row i
\* in column columns[j]; index[i] is the label of row i.
NaN == 0 - 1

EmptyDF == [index |-> <<>>, columns |-> <<>>, rows |-> <<>>]

ColPos(df, c) == CHOOSE j \in DOMAIN df.columns : df.columns[j] = c

\* df[c]
Col(df, c) == [i \in DOMAIN df.rows |-> df.rows[i][ColPos(df, c)]]

\* df[[c1, ..]]
SelectCols(df, cs) ==
  [df EXCEPT !.columns = cs,
             !.rows = [i \in DOMAIN df.rows |->
                         [j \in DOMAIN cs |-> df.rows[i][ColPos(df, cs[j])]]]]

\* df.drop(columns=cs)
DropCols(df, cs) ==
  LET keep == SelectIdx([j \in DOMAIN df.columns |-> df.columns[j] \notin Range(cs)],
                        1, Len(df.columns))
  IN SelectCols(df, [j \in DOMAIN keep |-> df.columns[keep[j]]])

\* df[mask]
FilterRows(df, mask) ==
  LET keep == SelectIdx(mask, 1, Len(df.rows))
  IN [df EXCEPT !.index = [i \in DOMAIN keep |-> df.index[keep[i]]],
                !.rows = [i \in DOMAIN keep |-> df.rows[keep[i]]]]

\* df.set_index(c): the column becomes the index and leaves the columns
SetIndex(df, c) ==
  LET d == DropCols(df, <<c>>)
  IN [d EXCEPT !.index = Col(df, c)]

\* pd.DataFrame({...}) from equally long columns, with a RangeIndex
FromColumns(cs, vals) ==
  LET n == Len(vals[1])
  IN [index |-> [i \in 1..n |-> i - 1],
      columns |-> cs,
      rows |-> [i \in 1..n |-> [j \in DOMAIN cs |-> vals[j][i]]]]

HasNaN(df) == \E i \in DOMAIN df.rows : \E j \in DOMAIN df.rows[i] : df.rows[i][j] = NaN

\* ------------------------------------------------------------ variables
VARIABLES
  nb,                  \* the notebook whose kernel is running ("none" before)
  cell,                \* index of the current code cell
  stmt,                \* index of the next statement inside the cell
  ids,                 \* tutorial 6: ids
  static_data,         \* tutorial 6: static_data
  temporal_data,       \* tutorial 6: temporal_data
  outcome_data,        \* tutorial 6: outcome_data
  observation_data,    \* tutorial 6: observation_data
  temporal_dataframes, \* tutorial 6: temporal_dataframes
  num                  \* tutorial 6: [subj |-> num_subj, obs |-> num_obs]

t6vars == <<ids, static_data, temporal_data, outcome_data, observation_data,
            temporal_dataframes, num>>

\* ------------------------------------------------- tutorial 6: simulate
UuidPrefixes == 1..NumPrefixes

\* temp_ids = ids * num_obs
TempIds(idl, num_obs) == Repeat(idl, num_obs)

\* timepoints = [i for i in range(num_obs)] * num_subj
Timepoints(num_subj, num_obs) == Repeat([i \in 1..num_obs |-> i - 1], num_subj)

\* static_data = pd.DataFrame({"id", "var_a", "var_b", "outcome"})
SimStatic(idl, seed) ==
  LET n == Len(idl)
  IN FromColumns(<<"id", "var_a", "var_b", "outcome">>,
       << idl,
          [i \in 1..n |-> Rand(seed, i, 2)],
          [i \in 1..n |-> Rand(seed, n + i, 4)],
          [i \in 1..n |-> Rand(seed, 2 * n + i, 2)] >>)

\* temporal_data = pd.DataFrame({"id", "temp_a", "temp_b", "temp_c", "timepoint"})
SimTemporal(idl, num_obs, seed) ==
  LET n == Len(idl)
      temp_len == num_obs * n
  IN FromColumns(<<"id", "temp_a", "temp_b", "temp_c", "timepoint">>,
       << TempIds(idl, num_obs),
          [i \in 1..temp_len |-> Rand(seed, 3 * n + i, 4)],
          [i \in 1..temp_len |-> Rand(seed, 3 * n + temp_len + i, 4)],
          [i \in 1..temp_len |-> Rand(seed, 3 * n + 2 * temp_len + i, 2)],
          Timepoints(n, num_obs) >>)

\* ------------------------------------------ tutorial 6: rearrange the data
\* outcome_data = static_data[["outcome"]]
RearrangeOutcome(sd) == SelectCols(sd, <<"outcome">>)

\* static_data = static_data.drop(columns=["outcome"])
RearrangeStatic(sd) == DropCols(sd, <<"outcome">>)

\* temp_df = temporal_data[temporal_data["id"] == id]
SubjectRows(td, id) == FilterRows(td, [i \in DOMAIN td.rows |-> Col(td, "id")[i] = id])

\* observations = temp_df["timepoint"].tolist()
Observations(td, id) == Col(SubjectRows(td, id), "timepoint")

\* variant: set_index without inplace=True, the index stays the row number
SubjectFrame_noinplace(td, id) == DropCols(SubjectRows(td, id), <<"id">>)

\* temp_df.set_index("timepoint", inplace=True); temp_df = temp_df.drop(columns=["id"])
SubjectFrame(td, id) == DropCols(SetIndex(SubjectRows(td, id), "timepoint"), <<"id">>)

\* for id in static_data["id"].unique(): ... observation_data.append(observations)
RearrangeObservations(sd, td) ==
  LET u == Unique(Col(sd, "id"))
  IN [k \in DOMAIN u |-> Observations(td, u[k])]

\* for id in static_data["id"].unique(): ... temporal_dataframes.append(temp_df)
RearrangeFrames(sd, td) ==
  LET u == Unique(Col(sd, "id"))
  IN [k \in DOMAIN u |-> SubjectFrame(td, u[k])]

\* ------------------------------------------------------------- datasets
\* The reference datasets are fixed files; each is abstracted to a table of
\* two rows over two of the columns the notebooks name.

Dataset(ds) ==
  CASE ds = "diabetes" ->      \* load_diabetes; X["target"] = y
         [index |-> <<0, 1>>, columns |-> <<"sex", "target">>,
          rows |-> << <<1, 3>>, <<2, 5>> >>]
    [] ds = "breast_cancer" -> \* load_breast_cancer
         [index |-> <<0, 1>>, columns |-> <<"mean radius", "worst radius">>,
          rows |-> << <<12, 14>>, <<17, 20>> >>]
    [] ds = "iris" ->          \* load_iris; X["target"] = y
         [index |-> <<0, 1>>, columns |-> <<"sepal length (cm)", "target">>,
          rows |-> << <<5, 0>>, <<6, 1>> >>]
    [] ds = "gbsg" ->          \* pycox gbsg, df[df["duration"] > 0]
         [index |-> <<0, 1>>, columns |-> <<"duration", "event">>,
          rows |-> << <<4, 0>>, <<9, 1>> >>]
    [] ds = "pbc" ->           \* PBCDataloader().load()
         [index |-> <<0, 1>>, columns |-> <<"sex", "event">>,
          rows |-> << <<0, 0>>, <<1, 1>> >>]
    [] OTHER ->                \* MedNIST images, one flattened pixel and the label
         [index |-> <<0, 1>>, columns |-> <<"pixel", "label">>,
          rows |-> << <<0, 0>>, <<7, 1>> >>]

\* ------------------------------------------------ constraints and schema
\* A rule is <<column, op, threshold>>.
RuleHolds(row, cols, rule) ==
  LET j == CHOOSE p \in DOMAIN cols : cols[p] = rule[1]
      v == row[j]
  IN CASE rule[2] = ">" -> v > rule[3]
       [] rule[2] = "<" -> v < rule[3]
       [] rule[2] = "ge" -> v >= rule[3]
       [] rule[2] = "le" -> v <= rule[3]
       [] OTHER -> v = rule[3]

\* a row complies with a list of rules
RowMatches(row, cols, rules) ==
  \A r \in DOMAIN rules : RuleHolds(row, cols, rules[r])

\* DataLoader.satisfies(constraints): every constrained column exists and
\* every row complies with every rule
Satisfies(df, rules) ==
  /\ \A r \in DOMAIN rules : rules[r][1] \in Range(df.columns)
  /\ \A i \in DOMAIN df.rows : RowMatches(df.rows[i], df.columns, rules)

\* DataLoader.match(constraints): the rows that comply
Match(df, rules) ==
  FilterRows(df, [i \in DOMAIN df.rows |-> RowMatches(df.rows[i], df.columns, rules)])

SeqMin(s) == CHOOSE x \in Range(s) : \A y \in Range(s) : x <= y
SeqMax(s) == CHOOSE x \in Range(s) : \A y \in Range(s) : x >= y

\* the constraints of the training set: every column stays within the range
\* seen during training
TrainingConstraints(df) ==
  LET n == Len(df.columns)
  IN [k \in 1..(2 * n) |->
        IF k <= n THEN <<df.columns[k], "ge", SeqMin(Col(df, df.columns[k]))>>
        ELSE <<df.columns[k - n], "le", SeqMax(Col(df, df.columns[k - n]))>>]

\* ------------------------------------------------------- plugin classes
\* keyword arguments are a sequence of <<key, value>> pairs
KwHas(kw, k) == \E i \in DOMAIN kw : kw[i][1] = k
KwGet(kw, k, default) ==
  IF KwHas(kw, k) THEN kw[CHOOSE i \in DOMAIN kw : kw[i][1] = k][2] ELSE default

\* the members the Plugin interface requires of every plugin
RequiredStatic == {"hyperparameter_space", "type", "name"}
RequiredInstance == {"_fit", "_generate"}

\* the plugins shipped with the library that the notebooks ask for
BuiltinNames ==
  <<"marginal_distributions", "adsgan", "survival_gan", "dpgan", "timegan",
    "image_cgan", "tvae", "ctgan">>

\* variant: name() returns a string other than the one the notebook asks for
ZeroOnePlugin_typo ==
  [name |-> "zero-one", type |-> "debug", hyperparameter_space |-> <<>>,
   static |-> {"name", "type", "hyperparameter_space"},
   instance |-> {"__init__", "_fit", "_generate"}]

\* class ZeroOnePlugin(Plugin)
ZeroOnePlugin ==
  [name |-> "zero_one", type |-> "debug", hyperparameter_space |-> <<>>,
   static |-> {"name", "type", "hyperparameter_space"},
   instance |-> {"__init__", "_fit", "_generate"}]

\* class sdv_ctgan_plugin(Plugin)
sdv_ctgan_plugin ==
  [name |-> "sdv_ctgan", type |-> "debug",
   hyperparameter_space |->
     << <<"embedding_n_units", 100, 500, 50>>, <<"batch_size", 100, 300, 50>>,
        <<"n_iter", 100, 500, 50>> >>,
   static |-> {"name", "type", "hyperparameter_space"},
   instance |-> {"__init__", "_fit", "_generate"}]

\* a plugin class of the library: it carries the name it is looked up by
BuiltinClass(n) ==
  [name |-> n, type |-> "generic", hyperparameter_space |-> <<>>,
   static |-> {"name", "type", "hyperparameter_space"},
   instance |-> {"__init__", "_fit", "_generate"}]

ClassDef(cls) ==
  CASE cls = "ZeroOnePlugin" -> ZeroOnePlugin
    [] cls = "sdv_ctgan_plugin" -> sdv_ctgan_plugin
    [] OTHER -> BuiltinClass(cls)

\* calling member m on the class itself (no instance): a static method
\* answers, an instance method lacks its self argument
CallOnClass(cls, m) ==
  IF m \in ClassDef(cls).static THEN "ok" ELSE "TypeError"

\* a class can be instantiated once it overrides every abstract member
Instantiable(cls) ==
  (RequiredStatic \cup RequiredInstance)
     \subseteq (ClassDef(cls).static \cup ClassDef(cls).instance)

NoModel == [embedding_dim |-> 0, batch_size |-> 0, epochs |-> 0,
            data |-> EmptyDF, discrete |-> <<>>]

\* Plugin.__init__(**kwargs): the state every plugin instance starts with
Plugin_init(cls, kw) ==
  [cls |-> cls, kwargs |-> kw, fitted |-> FALSE, schema |-> <<>>,
   cond |-> FALSE, features_count |-> 0, cat_limit |-> 0, model |-> NoModel]

\* ZeroOnePlugin.__init__
ZeroOne_init(kw) == Plugin_init("ZeroOnePlugin", kw)

\* sdv_ctgan_plugin.__init__(embedding_n_units=128, n_iter=2000,
\*                           batch_size=100, cat_limit=15, **kwargs)
sdv_init(kw) ==
  [Plugin_init("sdv_ctgan_plugin", kw) EXCEPT
     !.cat_limit = KwGet(kw, "cat_limit", 15),
     !.model = [NoModel EXCEPT !.embedding_dim = KwGet(kw, "embedding_n_units", 128),
                               !.batch_size = KwGet(kw, "batch_size", 100),
                               !.epochs = KwGet(kw, "n_iter", 2000)]]

\* cls(**kwargs)
Construct(cls, kw) ==
  CASE cls = "ZeroOnePlugin" -> ZeroOne_init(kw)
    [] cls = "sdv_ctgan_plugin" -> sdv_init(kw)
    [] OTHER -> Plugin_init(cls, kw)

\* variant: _fit without its return statement
ZeroOne_fit_noreturn(ref, self, X) ==
  [self |-> [self EXCEPT !.features_count = Len(X.columns)], ret |-> 0]

\* ZeroOnePlugin._fit: self.features_count = X.shape[1]; return self
ZeroOne_fit(ref, self, X) ==
  [self |-> [self EXCEPT !.features_count = Len(X.columns)], ret |-> ref]

\* sdv_ctgan_plugin._fit: the columns with fewer than cat_limit distinct
\* values are discrete; self.model.fit(X.dataframe(), ...); return self
sdv_fit(ref, self, X) ==
  LET isdisc == [j \in DOMAIN X.columns |->
                   Cardinality(Range(Col(X, X.columns[j]))) < self.cat_limit]
      d == SelectIdx(isdisc, 1, Len(X.columns))
  IN [self |-> [self EXCEPT !.model.data = X,
                            !.model.discrete = [k \in DOMAIN d |-> X.columns[d[k]]]],
      ret |-> ref]

\* _fit of a plugin of the library: it learns from the training data
Builtin_fit(ref, self, X) ==
  [self |-> [self EXCEPT !.model.data = X], ret |-> ref]

\* self._fit(X)
CallFit(ref, self, X) ==
  CASE self.cls = "ZeroOnePlugin" -> ZeroOne_fit(ref, self, X)
    [] self.cls = "sdv_ctgan_plugin" -> sdv_fit(ref, self, X)
    [] OTHER -> Builtin_fit(ref, self, X)

\* variant: fit that does not look for missing values
Plugin_fit_nonancheck(ref, self, X, cond) ==
  LET r == CallFit(ref, [self EXCEPT !.schema = TrainingConstraints(X), !.cond = cond], X)
  IN [raised |-> FALSE, self |-> [r.self EXCEPT !.fitted = TRUE], ret |-> r.ret]

\* Plugin.fit(X, cond): refuses data with missing values; otherwise records
\* the schema of the training set, trains and returns what _fit returns
Plugin_fit(ref, self, X, cond) ==
  IF HasNaN(X) THEN [raised |-> TRUE, self |-> self, ret |-> 0]
  ELSE LET r == CallFit(ref, [self EXCEPT !.schema = TrainingConstraints(X),
                                          !.cond = cond], X)
       IN [raised |-> FALSE, self |-> [r.self EXCEPT !.fitted = TRUE], ret |-> r.ret]

\* --------------------------------------------------------------- generate
\* the frames a sampler can hand back for `count` rows drawn from `domain`
Frames(cols, domain, count) ==
  { [index |-> [i \in 1..count |-> i - 1], columns |-> cols, rows |-> rs] :
      rs \in [1..count -> domain] }

\* the row whose every value lies just above the training range
OutOfRangeRow(X) == [j \in DOMAIN X.columns |-> SeqMax(Col(X, X.columns[j])) + 1]

\* np.random.randint(0, 2, size=(count, self.features_count)) wrapped in a
\* GenericDataLoader: the columns are named 0, 1, ..
ZeroOne_raw(self, count) ==
  Frames([j \in 1..self.features_count |-> ToString(j - 1)],
         [1..self.features_count -> {0, 1}], count)

\* CTGAN.sample(count): a discrete column takes a category seen in training,
\* a continuous one may also leave the training range
CTGAN_sample(self, count) ==
  LET X == self.model.data
      vals(j) == IF X.columns[j] \in Range(self.model.discrete)
                 THEN Range(Col(X, X.columns[j]))
                 ELSE Range(Col(X, X.columns[j])) \cup {OutOfRangeRow(X)[j]}
  IN Frames(X.columns,
            {r \in [DOMAIN X.columns -> UNION {vals(j) : j \in DOMAIN X.columns}] :
               \A j \in DOMAIN X.columns : r[j] \in vals(j)},
            count)

\* the sampler of a plugin of the library: rows like the training rows, or
\* rows outside the training range
Builtin_sample(self, count) ==
  LET X == self.model.data
  IN Frames(X.columns, Range(X.rows) \cup {OutOfRangeRow(X)}, count)

\* what the random source of the plugin can produce for one generate call
RawSamples(self, count) ==
  IF ~self.fitted THEN {EmptyDF}
  ELSE CASE self.cls = "ZeroOnePlugin" -> ZeroOne_raw(self, count)
         [] self.cls = "sdv_ctgan_plugin" -> CTGAN_sample(self, count)
         [] OTHER -> Builtin_sample(self, count)

\* Plugin._safe_generate(sampler, count, syn_schema): keeps the sampled rows
\* that comply with the schema, at most count of them
SafeGenerate(raw, count, rules) ==
  LET m == Match(raw, rules)
  IN IF Len(m.rows) <= count THEN m
     ELSE FilterRows(m, [i \in DOMAIN m.rows |-> i <= count])

\* ZeroOnePlugin._generate
ZeroOne_generate(self, count, rules, raw) == raw

\* sdv_ctgan_plugin._generate
sdv_generate(self, count, rules, raw) == SafeGenerate(raw, count, rules)

\* _generate of a plugin of the library
Builtin_generate(self, count, rules, raw) == SafeGenerate(raw, count, rules)

\* self._generate(count, syn_schema)
CallGenerate(self, count, rules, raw) ==
  CASE self.cls = "ZeroOnePlugin" -> ZeroOne_generate(self, count, rules, raw)
    [] self.cls = "sdv_ctgan_plugin" -> sdv_generate(self, count, rules, raw)
    [] OTHER -> Builtin_generate(self, count, rules, raw)

\* variant: generate hands out what _generate produced, unfiltered and unverified
Plugin_generate_nocheck(self, count, cons, raw) ==
  IF ~self.fitted THEN [raised |-> TRUE, value |-> EmptyDF, produced |-> EmptyDF]
  ELSE LET X_syn == CallGenerate(self, count, self.schema \o cons, raw)
       IN [raised |-> FALSE, value |-> X_syn, produced |-> X_syn]

\* Plugin.generate(count, constraints): needs a fitted plugin; the data that
\* _generate produced must comply with the constraints of the training set
\* and with the constraints given to the call, else an exception is raised
Plugin_generate(self, count, cons, raw) ==
  IF ~self.fitted THEN [raised |-> TRUE, value |-> EmptyDF, produced |-> EmptyDF]
  ELSE LET rules == self.schema \o cons
           X_syn == CallGenerate(self, count, rules, raw)
       IN IF Satisfies(X_syn, rules)
          THEN [raised |-> FALSE, value |-> X_syn, produced |-> X_syn]
          ELSE [raised |-> TRUE, value |-> EmptyDF, produced |-> X_syn]

\* ----------------------------------------------------------- the registry
\* A registry is a sequence of [name, cls] entries.
\* Plugins(): the plugins shipped with the library
Plugins_new == [i \in DOMAIN BuiltinNames |-> [name |-> BuiltinNames[i], cls |-> BuiltinNames[i]]]

\* Plugins.list()
Plugins_list(reg) == [i \in DOMAIN reg |-> reg[i].name]

\* Plugins.add(name, cls)
Plugins_add(reg, name, cls) ==
  IF name \in Range(Plugins_list(reg))
  THEN [i \in DOMAIN reg |-> IF reg[i].name = name THEN [name |-> name, cls |-> cls] ELSE reg[i]]
  ELSE Append(reg, [name |-> name, cls |-> cls])

\* Plugins.get(name, **kwargs): an instance of the class registered under name
Plugins_get(reg, name, kw) ==
  IF name \notin Range(Plugins_list(reg)) THEN [raised |-> TRUE, obj |-> Plugin_init("", <<>>)]
  ELSE LET cls == reg[CHOOSE i \in DOMAIN reg : reg[i].name = name].cls
       IN IF Instantiable(cls) THEN [raised |-> FALSE, obj |-> Construct(cls, kw)]
          ELSE [raised |-> TRUE, obj |-> Plugin_init("", <<>>)]

\* ---------------------------------------------------------- serialization
\* save() turns a plugin instance into bytes and load() parses them back.
\* Names travel as their position in a table, values shifted to be >= 0.
ClassTable == <<"ZeroOnePlugin", "sdv_ctgan_plugin">> \o BuiltinNames

StringTable ==
  <<"sex", "target", "mean radius", "worst radius", "sepal length (cm)", "duration",
    "event", "pixel", "label", "id", "var_a", "var_b", "ge", "le", ">", "<",
    "n_iter", "batch_size", "plot_progress", "cat_limit", "embedding_n_units">>

Code(tbl, x) == CHOOSE i \in DOMAIN tbl : tbl[i] = x

RECURSIVE Flat(_)
Flat(ss) == IF ss = <<>> THEN <<>> ELSE ss[1] \o Flat(Tail(ss))

Bit(b) == IF b THEN 1 ELSE 0

EncFrame(df) ==
  <<Len(df.columns), Len(df.rows)>>
    \o [j \in DOMAIN df.columns |-> Code(StringTable, df.columns[j])]
    \o [i \in DOMAIN df.index |-> df.index[i] + 1]
    \o Flat([i \in DOMAIN df.rows |-> [j \in DOMAIN df.rows[i] |-> df.rows[i][j] + 1]])

\* save(model)
Save(self) ==
  <<Code(ClassTable, self.cls), Bit(self.fitted), Bit(self.cond), self.features_count,
    self.cat_limit, self.model.embedding_dim, self.model.batch_size, self.model.epochs>>
    \o <<Len(self.kwargs)>>
    \o Flat([i \in DOMAIN self.kwargs |->
               <<Code(StringTable, self.kwargs[i][1]), self.kwargs[i][2]>>])
    \o <<Len(self.schema)>>
    \o Flat([i \in DOMAIN self.schema |->
               <<Code(StringTable, self.schema[i][1]), Code(StringTable, self.schema[i][2]),
                 self.schema[i][3] + 1>>])
    \o <<Len(self.model.discrete)>>
    \o [i \in DOMAIN self.model.discrete |-> Code(StringTable, self.model.discrete[i])]
    \o EncFrame(self.model.data)

\* the frame encoded in b from position p on
DecFrame(b, p) ==
  LET nc == b[p]
      nr == b[p + 1]
      v == p + 2 + nc + nr
  IN [index |-> [i \in 1..nr |-> b[p + 1 + nc + i] - 1],
      columns |-> [j \in 1..nc |-> StringTable[b[p + 1 + j]]],
      rows |-> [i \in 1..nr |-> [j \in 1..nc |-> b[v + (i - 1) * nc + (j - 1)] - 1]]]

\* variant: a parser that reads the class one table position too far
Load_shift(b) ==
  [cls |-> ClassTable[(b[1] % Len(ClassTable)) + 1], kwargs |-> <<>>, fitted |-> b[2] = 1,
   schema |-> <<>>, cond |-> b[3] = 1, features_count |-> b[4], cat_limit |-> b[5],
   model |-> NoModel]

\* load(buff)
Load(b) ==
  LET nk == b[9]
      ps == 10 + 2 * nk
      ns == b[ps]
      pd == ps + 1 + 3 * ns
      nd == b[pd]
  IN [cls |-> ClassTable[b[1]],
      kwargs |-> [i \in 1..nk |-> <<StringTable[b[8 + 2 * i]], b[9 + 2 * i]>>],
      fitted |-> b[2] = 1,
      schema |-> [i \in 1..ns |->
                    <<StringTable[b[ps + 3 * i - 2]], StringTable[b[ps + 3 * i - 1]],
                      b[ps + 3 * i] - 1>>],
      cond |-> b[3] = 1,
      features_count |-> b[4],
      cat_limit |-> b[5],
      model |-> [embedding_dim |-> b[6], batch_size |-> b[7], epochs |-> b[8],
                 data |-> DecFrame(b, pd + 1 + nd),
                 discrete |-> [i \in 1..nd |-> StringTable[b[pd + i]]]]]

\* ------------------------------------------------------------ the scripts
\* statements, as the code cells write them
SLoad(v, ds) == [op |-> "load_dataset", var |-> v, ds |-> ds]
SNan(v, src) == [op |-> "simulate_nan", var |-> v, frame |-> src]
SImpute(v, src) == [op |-> "impute", var |-> v, frame |-> src]
SLoader(v, kind, src) == [op |-> "loader", var |-> v, kind |-> kind, frame |-> src]
SSplit(src) == [op |-> "split", loader |-> src]
SNew(v) == [op |-> "plugins_new", var |-> v]
SClass(cls) == [op |-> "class", cls |-> cls]
SAdd(reg, name, cls) == [op |-> "add", reg |-> reg, name |-> name, cls |-> cls]
SList(reg) == [op |-> "list", reg |-> reg]
SGet(v, reg, name, kw) == [op |-> "get", var |-> v, reg |-> reg, name |-> name, kwargs |-> kw]
SFit(v, l, cond, assign) == [op |-> "fit", var |-> v, loader |-> l, cond |-> cond, assign |-> assign]
SGen(v, rowsOf, rules) == [op |-> "generate", var |-> v, rowsOf |-> rowsOf, constraints |-> rules]
SSave(v) == [op |-> "save", var |-> v]
SLoadBuff(v) == [op |-> "load", var |-> v]
SName(v) == [op |-> "name", var |-> v]
SSpace(v, onClass) == [op |-> "hyperparameter_space", var |-> v, onClass |-> onClass]
SPlot(v, l) == [op |-> "plot", var |-> v, loader |-> l]
SAssert(rule) == [op |-> "assert", rule |-> rule]
SStep(o) == [op |-> o]

\* ------------------------------------------- arguments of Benchmarks.evaluate
\* python values that occur in the argument lists, tagged with their type
Lit(s) == [t |-> "str", v |-> <<s>>]
Dict(items) == [t |-> "dict", v |-> items]
Ref(name) == [t |-> "ref", v |-> <<name>>]
PyInt(n) == [float |-> FALSE, whole |-> n, tenths |-> 0]
PyFloat(w, d) == [float |-> TRUE, whole |-> w, tenths |-> d]

DigitChars == <<"0", "1", "2", "3", "4", "5", "6", "7", "8", "9">>

RECURSIVE Digits(_)
\* the decimal digits of a natural number
Digits(n) ==
  IF n < 10 THEN <<DigitChars[n + 1]>>
  ELSE Digits(n \div 10) \o <<DigitChars[(n % 10) + 1]>>

\* str(x) of an int or of a float with one decimal
PyStr(x) ==
  IF x.float THEN Digits(x.whole) \o <<".">> \o Digits(x.tenths) ELSE Digits(x.whole)

\* variant: the f-string without its placeholder
FString_noplaceholder(prefix, x) == [t |-> "str", v |-> <<prefix>>]

\* f"<prefix>{x}", x given by the characters str(x) yields
FString(prefix, x) == [t |-> "str", v |-> <<prefix>> \o x]

\* [(f"test_{model}", model, kwargs) for model in models]
TestPerModel(models, kwargs) ==
  [i \in DOMAIN models |-> <<FString("test_", <<models[i]>>), Lit(models[i]), kwargs>>]

\* [(f"test_eps_{eps}", "dpgan", {"epsilon": eps}) for eps in [0.1, 1, 10]]
TestPerEps(epsilons) ==
  [i \in DOMAIN epsilons |->
     <<FString("test_eps_", PyStr(epsilons[i])), Lit("dpgan"),
       Dict(<< <<"epsilon", epsilons[i]>> >>)>>]

PLUGIN == "tvae"

\* score = Benchmarks.evaluate(tests, loader, ...)
SEval(tests, l) == [op |-> "evaluate", tests |-> tests, loader |-> l]

\* variant: the rule with the comparison reversed
constraints_lt == << <<"worst radius", "<", 15>> >>

\* constraints = Constraints(rules=[("worst radius", ">", 15)])
constraints == << <<"worst radius", ">", 15>> >>

\* Tutorial 0: basic examples
Tutorial0 ==
  << << SLoad("X", "diabetes") >>,
     << SLoader("loader", "generic", "X") >>,
     << SList("Plugins()") >>,
     << SGet("syn_model", "Plugins()", "marginal_distributions", <<>>),
        SFit("syn_model", "loader", FALSE, "") >>,
     << SGen("syn_model", "", <<>>) >>,
     << SGet("syn_model", "Plugins()", "adsgan", <<>>),
        SFit("syn_model", "loader", TRUE, "") >>,
     << SGen("syn_model", "", <<>>) >>,
     << SSave("syn_model") >>,
     << SLoadBuff("reloaded"), SName("reloaded") >>,
     << SPlot("syn_model", "loader") >>,
     << SEval(<< <<Lit("marginal_distributions"), Lit("marginal_distributions"), Dict(<<>>)>>,
                 <<Lit("dummy_sampler"), Lit("dummy_sampler"), Dict(<<>>)>> >>, "loader") >> >>

\* Tutorial 1: add a new plugin
Tutorial1 ==
  << << SNew("generators"), SList("generators") >>,
     << SClass("ZeroOnePlugin") >>,
     << SAdd("generators", "zero_one", "ZeroOnePlugin") >>,
     << SList("generators") >>,
     << SLoad("X", "breast_cancer"), SLoader("loader", "generic", "X") >>,
     << SGet("gen", "generators", "zero_one", <<>>), SFit("gen", "loader", FALSE, "") >>,
     << SGen("gen", "", <<>>) >>,
     << SClass("sdv_ctgan_plugin") >>,
     << SAdd("generators", "sdv_ctgan", "sdv_ctgan_plugin"), SList("generators") >>,
     << SGet("gen", "generators", "sdv_ctgan", << <<"n_iter", 100>> >>),
        SFit("gen", "loader", FALSE, "") >>,
     << SGen("gen", "", <<>>) >>,
     << SGen("gen", "", constraints), SAssert(<<"worst radius", ">", 15>>) >> >>

\* Tutorial 2: benchmarks
Tutorial2 ==
  << << SLoad("X", "iris"), SLoader("loader", "generic", "X") >>,
     << SList("Plugins()") >>,
     << SEval(<< <<Lit("uniform_sampler"), Lit("uniform_sampler"), Dict(<<>>)>> >>,
              "loader") >> >>

\* Tutorial 3: survival analysis
Tutorial3 ==
  << << SLoad("df", "gbsg") >>,
     << SLoader("loader", "survival", "df") >>,
     << SList("Plugins()") >>,
     << SGet("syn_model", "Plugins()", "survival_gan", <<>>),
        SFit("syn_model", "loader", FALSE, "") >>,
     << SGen("syn_model", "", <<>>) >>,
     << SGet("syn_model", "Plugins()", "survival_gan", <<>>),
        SFit("syn_model", "loader", TRUE, "") >>,
     << SGen("syn_model", "", <<>>) >>,
     << SSave("syn_model") >>,
     << SLoadBuff("reloaded"), SName("reloaded") >>,
     << SPlot("syn_model", "loader") >>,
     << SEval(TestPerModel(<<"adsgan", "survival_gan", "survae">>, Dict(<<>>)), "loader") >> >>

\* Tutorial 4: time series and time-series survival data
Tutorial4 ==
  << << SLoad("static_surv", "pbc"), SLoader("loader", "time_series_survival", "static_surv") >>,
     << SList("Plugins()") >>,
     << SGet("syn_model", "Plugins()", "timegan", <<>>),
        SFit("syn_model", "loader", FALSE, "") >>,
     << SGen("syn_model", "", <<>>) >>,
     << SPlot("syn_model", "loader") >>,
     << SEval(TestPerModel(<<"adsgan", "timegan">>, Dict(<<>>)), "loader") >> >>

\* Tutorial 5: differential privacy
Tutorial5 ==
  << << SLoad("X", "diabetes") >>,
     << SLoader("loader", "generic", "X") >>,
     << SList("Plugins()") >>,
     << SGet("syn_model", "Plugins()", "dpgan", <<>>),
        SFit("syn_model", "loader", FALSE, "") >>,
     << SGen("syn_model", "", <<>>) >>,
     << SEval(TestPerEps(<<PyFloat(0, 1), PyInt(1), PyInt(10)>>), "loader") >>,
     << SEval(TestPerModel(<<"pategan", "dpgan">>,
                           Dict(<< <<"epsilon", PyFloat(0, 1)>> >>)), "loader") >> >>

\* Tutorial 6: time series data preparation
Tutorial6 ==
  << << SStep("t6_simulate") >>,
     << SStep("t6_rearrange"), SStep("t6_loader") >>,
     << SGet("syn_model", "Plugins()", "timegan", <<>>),
        SFit("syn_model", "loader", FALSE, "") >>,
     << SGen("syn_model", "", <<>>) >>,
     << SEval(TestPerModel(<<"timegan">>, Dict(<<>>)), "loader") >> >>

\* Tutorial 7: image generation using MedNIST
Tutorial7 ==
  << << SStep("t7_listing") >>,
     << SStep("t7_dataset"), SLoad("dataset", "mednist"),
        SLoader("dataloader", "image", "dataset") >>,
     << SGet("generator", "Plugins()", "image_cgan",
             << <<"batch_size", 100>>, <<"plot_progress", 1>> >>) >>,
     \* generator.fit(dataloader, ...) reads the images through dataset[index]
     << SStep("t7_iterate"), SFit("generator", "dataloader", TRUE, "") >>,
     << SGen("generator", "", <<>>) >>,
     << SGen("generator", "", <<>>), SGen("generator", "", <<>>) >>,
     << SEval(TestPerModel(<<"image_cgan", "image_adsgan">>, Dict(<<>>)), "dataloader") >> >>

\* Tutorial 8: hyperparameter optimization
Tutorial8 ==
  << << SLoad("X", "diabetes") >>,
     << SLoader("loader", "generic", "X"), SSplit("loader") >>,
     << SGet("_", "Plugins()", "tvae", <<>>) >>,     \* plugin_cls = type(Plugins().get(PLUGIN))
     << SSpace("_", TRUE) >>,                          \* plugin_cls.hyperparameter_space()
     << SSpace("_", TRUE), SStep("suggest_all") >>,    \* suggest_all(trial, plugin_cls.hyperparameter_space())
     << SGet("_", "Plugins()", "tvae", << <<"n_iter", 100>> >>),  \* plugin_cls(**params)
        SFit("_", "train_loader", FALSE, "plugin"),    \* plugin = ....fit(train_loader)
        SEval(<< <<Lit("trial"), Lit(PLUGIN), Ref("params")>> >>, "train_loader") >>,
     << SStep("optimize") >>,                          \* study.optimize(objective, n_trials=2)
     << SStep("best_params"),                          \* best_params = study.best_params
        SEval(<< <<Lit("test"), Lit(PLUGIN), Ref("best_params")>> >>, "train_loader") >> >>

\* variant: the second loader wraps df, the data before imputation
Tutorial9_noimpute ==
  << << SLoad("df_", "diabetes"), SNan("df", "df_") >>,
     << SLoader("loader", "generic", "df") >>,
     << SGet("syn_model", "Plugins()", "ctgan", <<>>),
        SFit("syn_model", "loader", FALSE, "") >>,
     << SImpute("x_imputed", "df") >>,
     << SLoader("loader", "generic", "df") >>,
     << SGet("syn_model", "Plugins()", "ctgan", <<>>),
        SFit("syn_model", "loader", FALSE, "") >>,
     << SGen("syn_model", "df_", <<>>) >>,
     << SPlot("syn_model", "loader") >> >>

\* Tutorial 9: dealing with missing data
Tutorial9 ==
  << << SLoad("df_", "diabetes"), SNan("df", "df_") >>,
     << SLoader("loader", "generic", "df") >>,
     << SGet("syn_model", "Plugins()", "ctgan", <<>>),
        SFit("syn_model", "loader", FALSE, "") >>,
     << SImpute("x_imputed", "df") >>,
     << SLoader("loader", "generic", "x_imputed") >>,
     << SGet("syn_model", "Plugins()", "ctgan", <<>>),
        SFit("syn_model", "loader", FALSE, "") >>,
     << SGen("syn_model", "df_", <<>>) >>,
     << SPlot("syn_model", "loader") >> >>

Notebooks == {"t0", "t1", "t2", "t3", "t4", "t5", "t6", "t7", "t8", "t9"}

Script(n) ==
  CASE n = "t0" -> Tutorial0 [] n = "t1" -> Tutorial1 [] n = "t2" -> Tutorial2
    [] n = "t3" -> Tutorial3 [] n = "t4" -> Tutorial4 [] n = "t5" -> Tutorial5
    [] n = "t6" -> Tutorial6 [] n = "t7" -> Tutorial7 [] n = "t8" -> Tutorial8
    [] OTHER -> Tutorial9

\* -------------------------------------------------------- kernel state
VARIABLES
  bound,       \* the names bound in the kernel's namespace
  frames,      \* the dataframe behind each bound dataframe name
  loaders,     \* the data loader behind each bound loader name
  objs,        \* the plugin instances created so far
  ns,          \* the instance (position in objs) behind each model name
  generators,  \* tutorial 1: the registry held by `generators`
  buff,        \* the bytes returned by save
  last         \* the statement executed last and its outcome

VARIABLES
  data_dir,          \* tutorial 7: the entries of workspace/MedNIST on disk
  class_names,       \* tutorial 7: class_names
  image_files,       \* tutorial 7: image_files
  num_each,          \* tutorial 7: num_each
  image_files_list,  \* tutorial 7: image_files_list
  image_class,       \* tutorial 7: image_class
  image_cache        \* tutorial 7: dataset.image_cache

t7vars == <<data_dir, class_names, image_files, num_each, image_files_list,
            image_class, image_cache>>

VARIABLES
  params,       \* tutorial 8: params
  best_params,  \* tutorial 8: best_params
  study,        \* tutorial 8: the trials of the optuna study
  active        \* the calls into code of the notebook that have not returned yet

t8vars == <<params, best_params, study, active>>

vars == <<nb, cell, stmt, ids, static_data, temporal_data, outcome_data,
          observation_data, temporal_dataframes, num, bound, frames, loaders,
          objs, ns, generators, buff, last, t7vars, t8vars>>

pos == <<nb, cell, stmt>>
libvars == <<bound, frames, loaders, objs, ns, generators, buff>>

FrameNames == {"X", "df", "df_", "x_imputed", "static_surv", "dataset"}
LoaderNames == {"loader", "train_loader", "test_loader", "dataloader"}
ModelNames == {"syn_model", "gen", "reloaded", "generator", "plugin", "_"}

NoLoader == [kind |-> "", df |-> EmptyDF]

NoCall ==
  [op |-> "", var |-> "", obj |-> 0, called |-> FALSE, raised |-> FALSE,
   was_fitted |-> FALSE, value |-> EmptyDF, names |-> <<>>, ret |-> 0,
   rules |-> <<>>, count |-> 0, name |-> "", kwargs |-> <<>>, data |-> EmptyDF,
   produced |-> EmptyDF, tests |-> <<>>, loader |-> "", report |-> {}]

Init ==
  /\ nb = "none" /\ cell = 1 /\ stmt = 1
  /\ ids = <<>> /\ static_data = EmptyDF /\ temporal_data = EmptyDF
  /\ outcome_data = EmptyDF /\ observation_data = <<>> /\ temporal_dataframes = <<>>
  /\ num = [subj |-> 0, obs |-> 0]
  /\ bound = {}
  /\ frames = [v \in FrameNames |-> EmptyDF]
  /\ loaders = [v \in LoaderNames |-> NoLoader]
  /\ objs = <<>>
  /\ ns = [v \in ModelNames |-> 0]
  /\ generators = <<>>
  /\ buff = <<>>
  /\ last = NoCall
  /\ data_dir = <<>> /\ class_names = <<>> /\ image_files = <<>>
  /\ num_each = <<>> /\ image_files_list = <<>> /\ image_class = <<>>
  /\ image_cache = {}
  /\ params = Dict(<<>>) /\ best_params = Dict(<<>>)
  /\ study = <<>> /\ active = {}

Running == nb \in Notebooks /\ cell <= Len(Script(nb))
Cur == Script(nb)[cell][stmt]
At(o) == Running /\ Cur.op = o

\* the statement ran: go on in the cell; it raised: the rest of the cell is
\* skipped and the next cell is run
Goto(raised) ==
  /\ nb' = nb
  /\ IF raised \/ stmt = Len(Script(nb)[cell])
     THEN cell' = cell + 1 /\ stmt' = 1
     ELSE cell' = cell /\ stmt' = stmt + 1

\* a statement that names something unbound raises NameError before any call
NameError(o) ==
  /\ last' = [NoCall EXCEPT !.op = o, !.raised = TRUE]
  /\ Goto(TRUE)
  /\ UNCHANGED <<libvars, t6vars, t7vars, t8vars>>

\* the kernel of one notebook is started
Start(n) ==
  /\ nb = "none"
  /\ nb' = n /\ cell' = 1 /\ stmt' = 1
  /\ UNCHANGED <<libvars, t6vars, t7vars, t8vars, last>>

\* ------------------------------------------------------ data statements
\* X, y = load_...(); X["target"] = y
LoadDataset ==
  /\ At("load_dataset")
  /\ frames' = [frames EXCEPT ![Cur.var] = Dataset(Cur.ds)]
  /\ bound' = bound \cup {Cur.var}
  /\ last' = [NoCall EXCEPT !.op = "load_dataset", !.var = Cur.var]
  /\ Goto(FALSE)
  /\ UNCHANGED <<loaders, objs, ns, generators, buff, t6vars, t7vars, t8vars>>

\* the frame with the cells of `mask` replaced by NaN
Masked(df, mask) ==
  [df EXCEPT !.rows = [i \in DOMAIN df.rows |-> [j \in DOMAIN df.rows[i] |->
                         IF <<i, j>> \in mask THEN NaN ELSE df.rows[i][j]]]]

\* x_miss = simulate_nan(np.asarray(df_), percentage_missing, mechanism)["X_incomp"]
\* df = pd.DataFrame(x_miss, columns=df_.columns): every cell is missing or
\* not, independently of the others
SimulateNan ==
  /\ At("simulate_nan")
  /\ \E mask \in SUBSET ((DOMAIN frames[Cur.frame].rows) \X (DOMAIN frames[Cur.frame].columns)) :
       frames' = [frames EXCEPT ![Cur.var] = Masked(frames[Cur.frame], mask)]
  /\ bound' = bound \cup {Cur.var}
  /\ last' = [NoCall EXCEPT !.op = "simulate_nan", !.var = Cur.var]
  /\ Goto(FALSE)
  /\ UNCHANGED <<loaders, objs, ns, generators, buff, t6vars, t7vars, t8vars>>

\* the values an imputer can put in a missing cell of column j: a value
\* observed in that column, or 0 when the whole column is missing
ImputeValues(df, j) ==
  LET seen == {df.rows[i][j] : i \in DOMAIN df.rows} \ {NaN}
  IN IF seen = {} THEN {0} ELSE seen

\* the frames imputer.fit_transform(df) can return: the observed cells are
\* kept, every missing cell is filled
FitTransform(df) ==
  LET V == UNION {ImputeValues(df, j) : j \in DOMAIN df.columns}
      fills == {g \in [DOMAIN df.rows -> [DOMAIN df.columns -> V]] :
                  \A i \in DOMAIN df.rows : \A j \in DOMAIN df.columns :
                     g[i][j] \in ImputeValues(df, j)}
  IN { [df EXCEPT !.rows = [i \in DOMAIN df.rows |-> [j \in DOMAIN df.columns |->
                     IF df.rows[i][j] = NaN THEN f[i][j] ELSE df.rows[i][j]]]] :
       f \in fills }

\* x_imputed = imputer.fit_transform(df.copy())
Impute ==
  /\ At("impute")
  /\ IF Cur.frame \notin bound THEN NameError("impute")
     ELSE /\ \E x \in FitTransform(frames[Cur.frame]) :
               frames' = [frames EXCEPT ![Cur.var] = x]
          /\ bound' = bound \cup {Cur.var}
          /\ last' = [NoCall EXCEPT !.op = "impute", !.var = Cur.var]
          /\ Goto(FALSE)
          /\ UNCHANGED <<loaders, objs, ns, generators, buff, t6vars, t7vars, t8vars>>

\* loader = GenericDataLoader(df, ...) and the other loaders over a frame
MakeLoader ==
  /\ At("loader")
  /\ IF Cur.frame \notin bound THEN NameError("loader")
     ELSE /\ loaders' = [loaders EXCEPT ![Cur.var] = [kind |-> Cur.kind, df |-> frames[Cur.frame]]]
          /\ bound' = bound \cup {Cur.var}
          /\ last' = [NoCall EXCEPT !.op = "loader", !.var = Cur.var,
                                    !.data = frames[Cur.frame]]
          /\ Goto(FALSE)
          /\ UNCHANGED <<frames, objs, ns, generators, buff, t6vars, t7vars, t8vars>>

\* loader.train(): all rows but the last; loader.test(): the last row
TrainPart(l) == [l EXCEPT !.df = FilterRows(l.df, [i \in DOMAIN l.df.rows |-> i < Len(l.df.rows)])]
TestPart(l) == [l EXCEPT !.df = FilterRows(l.df, [i \in DOMAIN l.df.rows |-> i = Len(l.df.rows)])]

\* train_loader, test_loader = loader.train(), loader.test()
Split ==
  /\ At("split")
  /\ IF Cur.loader \notin bound THEN NameError("split")
     ELSE /\ loaders' = [loaders EXCEPT !["train_loader"] = TrainPart(loaders[Cur.loader]),
                                        !["test_loader"] = TestPart(loaders[Cur.loader])]
          /\ bound' = bound \cup {"train_loader", "test_loader"}
          /\ last' = [NoCall EXCEPT !.op = "split"]
          /\ Goto(FALSE)
          /\ UNCHANGED <<frames, objs, ns, generators, buff, t6vars, t7vars, t8vars>>

\* --------------------------------------------------- registry statements
\* generators = Plugins()
PluginsNew ==
  /\ At("plugins_new")
  /\ generators' = Plugins_new
  /\ bound' = bound \cup {Cur.var}
  /\ last' = [NoCall EXCEPT !.op = "plugins_new", !.var = Cur.var]
  /\ Goto(FALSE)
  /\ UNCHANGED <<frames, loaders, objs, ns, buff, t6vars, t7vars, t8vars>>

\* class ZeroOnePlugin(Plugin): ... / class sdv_ctgan_plugin(Plugin): ...
DefineClass ==
  /\ At("class")
  /\ bound' = bound \cup {Cur.cls}
  /\ last' = [NoCall EXCEPT !.op = "class", !.name = Cur.cls]
  /\ Goto(FALSE)
  /\ UNCHANGED <<frames, loaders, objs, ns, generators, buff, t6vars, t7vars, t8vars>>

\* generators.add(name, cls)
Add ==
  /\ At("add")
  /\ IF ~({Cur.reg, Cur.cls} \subseteq bound) THEN NameError("add")
     ELSE /\ generators' = Plugins_add(generators, Cur.name, Cur.cls)
          /\ last' = [NoCall EXCEPT !.op = "add", !.called = TRUE, !.name = Cur.name]
          /\ Goto(FALSE)
          /\ UNCHANGED <<bound, frames, loaders, objs, ns, buff, t6vars, t7vars, t8vars>>

\* the registry a statement addresses: a fresh Plugins() or `generators`
Registry(r) == IF r = "Plugins()" THEN Plugins_new ELSE generators
RegistryBound(r) == r = "Plugins()" \/ r \in bound

\* Plugins().list() / generators.list()
List ==
  /\ At("list")
  /\ IF ~RegistryBound(Cur.reg) THEN NameError("list")
     ELSE /\ last' = [NoCall EXCEPT !.op = "list", !.called = TRUE,
                                    !.names = Plugins_list(Registry(Cur.reg))]
          /\ Goto(FALSE)
          /\ UNCHANGED <<libvars, t6vars, t7vars, t8vars>>

\* var = Plugins().get(name, **kwargs) / generators.get(name, **kwargs)
Get ==
  /\ At("get")
  /\ IF ~RegistryBound(Cur.reg) THEN NameError("get")
     ELSE LET r == Plugins_get(Registry(Cur.reg), Cur.name, Cur.kwargs)
          IN /\ objs' = IF r.raised THEN objs ELSE Append(objs, r.obj)
             /\ ns' = IF r.raised THEN ns ELSE [ns EXCEPT ![Cur.var] = Len(objs) + 1]
             /\ bound' = IF r.raised THEN bound ELSE bound \cup {Cur.var}
             /\ last' = [NoCall EXCEPT !.op = "get", !.var = Cur.var, !.called = TRUE,
                                       !.raised = r.raised, !.name = Cur.name,
                                       !.kwargs = Cur.kwargs,
                                       !.obj = IF r.raised THEN 0 ELSE Len(objs) + 1]
             /\ Goto(r.raised)
             /\ UNCHANGED <<frames, loaders, generators, buff, t6vars, t7vars, t8vars>>

\* a model name that is bound to a plugin instance
IsModel(v) == v \in bound /\ ns[v] # 0

\* ------------------------------------------------------ model statements
\* var.fit(loader, cond=...), possibly assigned: plugin = cls(**params).fit(loader)
Fit ==
  /\ At("fit")
  /\ IF ~(IsModel(Cur.var) /\ Cur.loader \in bound) THEN NameError("fit")
     ELSE LET ref == ns[Cur.var]
              X == loaders[Cur.loader].df
              r == Plugin_fit(ref, objs[ref], X, Cur.cond)
              assigned == ~r.raised /\ Cur.assign # ""
          IN /\ objs' = [objs EXCEPT ![ref] = r.self]
             /\ ns' = IF assigned THEN [ns EXCEPT ![Cur.assign] = r.ret] ELSE ns
             /\ bound' = IF assigned THEN bound \cup {Cur.assign} ELSE bound
             /\ last' = [NoCall EXCEPT !.op = "fit", !.var = Cur.var, !.obj = ref,
                                       !.called = TRUE, !.raised = r.raised,
                                       !.was_fitted = objs[ref].fitted,
                                       !.ret = r.ret, !.data = X]
             /\ Goto(r.raised)
             /\ UNCHANGED <<frames, loaders, generators, buff, t6vars, t7vars, t8vars>>

\* the count a generate statement passes: count=10 (scaled to MaxCount), or
\* the number of rows of a frame (count=df_.shape[0])
CountOf(s) == IF s.rowsOf = "" THEN MaxCount ELSE Len(frames[s.rowsOf].rows)

\* var.generate(count=..., constraints=...)
Generate ==
  /\ At("generate")
  /\ IF ~(IsModel(Cur.var) /\ (Cur.rowsOf = "" \/ Cur.rowsOf \in bound))
     THEN NameError("generate")
     ELSE LET ref == ns[Cur.var]
              count == CountOf(Cur)
          IN \E raw \in RawSamples(objs[ref], count) :
               LET r == Plugin_generate(objs[ref], count, Cur.constraints, raw)
               IN /\ last' = [NoCall EXCEPT !.op = "generate", !.var = Cur.var,
                                            !.obj = ref, !.called = TRUE,
                                            !.raised = r.raised,
                                            !.was_fitted = objs[ref].fitted,
                                            !.value = r.value, !.count = count,
                                            !.produced = r.produced,
                                            !.rules = Cur.constraints]
                  /\ Goto(r.raised)
                  /\ UNCHANGED <<libvars, t6vars, t7vars, t8vars>>

\* the tutorial's check on the generated data: (generated[col] > v).any()
AssertAny(df, rule) ==
  \E i \in DOMAIN df.rows : RuleHolds(df.rows[i], df.columns, rule)

\* assert (generated["worst radius"] > 15).any()
AssertCell ==
  /\ At("assert")
  /\ last' = [NoCall EXCEPT !.op = "assert", !.obj = last.obj, !.value = last.value,
                            !.raised = ~AssertAny(last.value, Cur.rule)]
  /\ Goto(~AssertAny(last.value, Cur.rule))
  /\ UNCHANGED <<libvars, t6vars, t7vars, t8vars>>

\* buff = save(syn_model)
SaveModel ==
  /\ At("save")
  /\ IF ~IsModel(Cur.var) THEN NameError("save")
     ELSE /\ buff' = Save(objs[ns[Cur.var]])
          /\ bound' = bound \cup {"buff"}
          /\ last' = [NoCall EXCEPT !.op = "save", !.var = Cur.var, !.obj = ns[Cur.var],
                                    !.called = TRUE,
                                    !.was_fitted = objs[ns[Cur.var]].fitted]
          /\ Goto(FALSE)
          /\ UNCHANGED <<frames, loaders, objs, ns, generators, t6vars, t7vars, t8vars>>

\* reloaded = load(buff)
LoadModel ==
  /\ At("load")
  /\ IF "buff" \notin bound THEN NameError("load")
     ELSE /\ objs' = Append(objs, Load(buff))
          /\ ns' = [ns EXCEPT ![Cur.var] = Len(objs) + 1]
          /\ bound' = bound \cup {Cur.var}
          /\ last' = [NoCall EXCEPT !.op = "load", !.var = Cur.var, !.called = TRUE,
                                    !.obj = Len(objs) + 1]
          /\ Goto(FALSE)
          /\ UNCHANGED <<frames, loaders, generators, buff, t6vars, t7vars, t8vars>>

\* reloaded.name()
Name ==
  /\ At("name")
  /\ IF ~IsModel(Cur.var) THEN NameError("name")
     ELSE /\ last' = [NoCall EXCEPT !.op = "name", !.var = Cur.var, !.obj = ns[Cur.var],
                                    !.called = TRUE,
                                    !.name = ClassDef(objs[ns[Cur.var]].cls).name]
          /\ Goto(FALSE)
          /\ UNCHANGED <<libvars, t6vars, t7vars, t8vars>>

\* plugin_cls.hyperparameter_space() on the class of the instance, or
\* Plugins().get(PLUGIN).hyperparameter_space() on the instance itself
HyperparameterSpace ==
  /\ At("hyperparameter_space")
  /\ IF ~IsModel(Cur.var) THEN NameError("hyperparameter_space")
     ELSE LET cls == objs[ns[Cur.var]].cls
              failed == Cur.onClass /\ CallOnClass(cls, "hyperparameter_space") # "ok"
          IN /\ last' = [NoCall EXCEPT !.op = "hyperparameter_space", !.var = Cur.var,
                                       !.obj = ns[Cur.var], !.called = TRUE,
                                       !.raised = failed, !.name = cls]
             /\ Goto(failed)
             /\ UNCHANGED <<libvars, t6vars, t7vars, t8vars>>

\* syn_model.plot(plt, loader): draws samples of the model against the data
Plot ==
  /\ At("plot")
  /\ IF ~(IsModel(Cur.var) /\ Cur.loader \in bound) THEN NameError("plot")
     ELSE /\ last' = [NoCall EXCEPT !.op = "plot", !.var = Cur.var, !.obj = ns[Cur.var],
                                    !.called = TRUE,
                                    !.raised = ~objs[ns[Cur.var]].fitted,
                                    !.was_fitted = objs[ns[Cur.var]].fitted]
          /\ Goto(~objs[ns[Cur.var]].fitted)
          /\ UNCHANGED <<libvars, t6vars, t7vars, t8vars>>

\* ---------------------------------------------------- benchmark statements
\* the keyword arguments a test names: a dict literal, or the dict a name holds
Resolve(kw) ==
  IF kw.t = "ref" THEN (IF kw.v[1] = "params" THEN params ELSE best_params) ELSE kw

Resolved(tests) ==
  [i \in DOMAIN tests |-> <<tests[i][1], tests[i][2], Resolve(tests[i][3])>>]

\* the names a statement's tests refer to
Refs(tests) == {tests[i][3].v[1] : i \in {j \in DOMAIN tests : tests[j][3].t = "ref"}}

\* Benchmarks.evaluate(tests, X): trains and scores every test and returns a
\* report, a dict with one entry per label; training may fail
Benchmarks_evaluate(tests, X, ok) ==
  [raised |-> ~ok,
   report |-> IF ok THEN {tests[i][1] : i \in DOMAIN tests} ELSE {}]

\* score = Benchmarks.evaluate([...], loader, ...)
Evaluate ==
  /\ At("evaluate")
  /\ IF ~(Cur.loader \in bound /\ Refs(Cur.tests) \subseteq bound) THEN NameError("evaluate")
     ELSE \E ok \in BOOLEAN :
          LET tests == Resolved(Cur.tests)
              r == Benchmarks_evaluate(tests, loaders[Cur.loader], ok)
          IN /\ last' = [NoCall EXCEPT !.op = "evaluate", !.called = TRUE,
                                       !.raised = r.raised, !.tests = tests,
                                       !.loader = Cur.loader, !.report = r.report]
             /\ Goto(r.raised)
             /\ UNCHANGED <<libvars, t6vars, t7vars, t8vars>>

\* ------------------------------------------------- tutorial 6 statements
\* the cell that simulates static_data and temporal_data
T6Simulate ==
  /\ At("t6_simulate")
  /\ \E num_subj \in 1..MaxSubj, num_obs \in 1..MaxObs, seed \in 0..(MaxSeed - 1) :
       \E idl \in [1..num_subj -> UuidPrefixes] :
         /\ num' = [subj |-> num_subj, obs |-> num_obs]
         /\ ids' = idl
         /\ static_data' = SimStatic(idl, seed)
         /\ temporal_data' = SimTemporal(idl, num_obs, seed)
  /\ last' = [NoCall EXCEPT !.op = "t6_simulate"]
  /\ Goto(FALSE)
  /\ UNCHANGED <<libvars, t7vars, t8vars, outcome_data, observation_data, temporal_dataframes>>

\* the statements that rearrange the static and the temporal data
T6Rearrange ==
  /\ At("t6_rearrange")
  /\ outcome_data' = RearrangeOutcome(static_data)
  /\ static_data' = RearrangeStatic(static_data)
  /\ observation_data' = RearrangeObservations(static_data', temporal_data)
  /\ temporal_dataframes' = RearrangeFrames(static_data', temporal_data)
  /\ last' = [NoCall EXCEPT !.op = "t6_rearrange"]
  /\ Goto(FALSE)
  /\ UNCHANGED <<libvars, t7vars, t8vars, ids, temporal_data, num>>

\* TimeSeriesDataLoader accepts its four inputs when they have the same length
SameLength(td, ot, sd, oc) ==
  /\ Len(td) = Len(ot)
  /\ Len(td) = Len(sd.rows)
  /\ Len(td) = Len(oc.rows)

\* loader = TimeSeriesDataLoader(temporal_data=temporal_dataframes,
\*   observation_times=observation_data, static_data=static_data, outcome=outcome_data)
T6Loader ==
  /\ At("t6_loader")
  /\ LET ok == SameLength(temporal_dataframes, observation_data, static_data, outcome_data)
     IN /\ loaders' = IF ok THEN [loaders EXCEPT !["loader"] =
                                    [kind |-> "time_series", df |-> static_data]]
                      ELSE loaders
        /\ bound' = IF ok THEN bound \cup {"loader"} ELSE bound
        /\ last' = [NoCall EXCEPT !.op = "t6_loader", !.called = TRUE, !.raised = ~ok]
        /\ Goto(~ok)
  /\ UNCHANGED <<frames, objs, ns, generators, buff, t6vars, t7vars, t8vars>>

\* ------------------------------------------------- tutorial 7 statements
Min(a, b) == IF a <= b THEN a ELSE b

\* an entry of data_dir: a plain file, or a directory and what os.listdir
\* returns for it (a file is named by its place in that listing); a directory
\* holds up to LIMIT + 1 files
DirEntries ==
  {[kind |-> "file", files |-> <<>>]} \cup
  {[kind |-> "dir", files |-> [k \in 1..n |-> k]] : n \in 0..(LIMIT + 1)}

\* download_and_extract leaves some tree under workspace/MedNIST; the entry
\* names 1..MaxClasses stand for names in lexicographic order
FileSystems == [1..MaxClasses -> DirEntries]

RECURSIVE Sorted(_)
\* sorted(...)
Sorted(S) ==
  IF S = {} THEN <<>>
  ELSE LET m == CHOOSE x \in S : \A y \in S : x <= y
       IN <<m>> \o Sorted(S \ {m})

\* class_names = sorted(x for x in os.listdir(data_dir) if os.path.isdir(...))
ClassNames(fs) == Sorted({x \in DOMAIN fs : fs[x].kind = "dir"})

\* image_files = [[os.path.join(data_dir, class_names[i], x) for x in
\*                 os.listdir(...)] for i in range(num_class)]
ImageFiles(fs, cn) ==
  [i \in DOMAIN cn |->
     [k \in DOMAIN fs[cn[i]].files |-> <<cn[i], fs[cn[i]].files[k]>>]]

\* num_each = [len(image_files[i]) for i in range(num_class)]
NumEach(imf) == [i \in DOMAIN imf |-> Len(imf[i])]

\* s[:n]
Take(s, n) == SubSeq(s, 1, Min(Len(s), n))

RECURSIVE ImageFilesList(_, _)
\* for i in range(num_class): image_files_list.extend(image_files[i][:LIMIT])
ImageFilesList(imf, n) ==
  IF n = 0 THEN <<>> ELSE ImageFilesList(imf, n - 1) \o Take(imf[n], LIMIT)

\* variant: the labels of a class are repeated num_each[i] times, without min
ClassLabels_nomin(i, ne) == Repeat(<<i>>, ne[i + 1])

\* [i] * min(num_each[i], LIMIT)
ClassLabels(i, ne) == Repeat(<<i>>, Min(ne[i + 1], LIMIT))

RECURSIVE ImageClass(_, _)
\* for i in range(num_class): image_class.extend([i] * min(num_each[i], LIMIT))
ImageClass(ne, n) ==
  IF n = 0 THEN <<>> ELSE ImageClass(ne, n - 1) \o ClassLabels(n - 1, ne)

\* the cell that lists the image files; PIL.Image.open(image_files_list[0])
\* raises IndexError after the loop when no file was listed
T7Listing ==
  /\ At("t7_listing")
  /\ \E fs \in FileSystems : data_dir' = fs
  /\ class_names' = ClassNames(data_dir')
  /\ image_files' = ImageFiles(data_dir', class_names')
  /\ num_each' = NumEach(image_files')
  /\ image_files_list' = ImageFilesList(image_files', Len(class_names'))
  /\ image_class' = ImageClass(num_each', Len(class_names'))
  /\ image_cache' = image_cache
  /\ last' = [NoCall EXCEPT !.op = "t7_listing", !.raised = (image_files_list' = <<>>)]
  /\ Goto(image_files_list' = <<>>)
  /\ UNCHANGED <<libvars, t6vars, t8vars>>

\* ------------------------------------------------- tutorial 8 statements
\* study.optimize(objective, n_trials=2); n_jobs is not passed and is 1
n_trials == 2

\* variant: study.optimize(objective, n_trials=2, n_jobs=2)
n_jobs_2 == n_trials

n_jobs == 1

\* suggest_all(trial, hp_space): a value for each hyperparameter of the space
Suggestions == {Dict(<< <<"n_iter", PyInt(v)>> >>) : v \in 1..MaxSuggest}

\* d[key] = value
DictSet(d, key, value) ==
  IF \E i \in DOMAIN d.v : d.v[i][1] = key
  THEN Dict([i \in DOMAIN d.v |-> IF d.v[i][1] = key THEN <<key, value>> ELSE d.v[i]])
  ELSE Dict(Append(d.v, <<key, value>>))

\* params = suggest_all(trial, plugin_cls.hyperparameter_space()); params['n_iter'] = 100
SuggestAll ==
  /\ At("suggest_all")
  /\ \E p \in Suggestions : params' = DictSet(p, "n_iter", PyInt(100))
  /\ bound' = bound \cup {"params"}
  /\ last' = [NoCall EXCEPT !.op = "suggest_all"]
  /\ Goto(FALSE)
  /\ UNCHANGED <<frames, loaders, objs, ns, generators, buff, t6vars, t7vars,
                 best_params, study, active>>

\* study.optimize starts the next trial when fewer than n_jobs are running:
\* objective(trial) runs up to its call of Benchmarks.evaluate
TrialAsk ==
  /\ At("optimize")
  /\ Len(study) < n_trials
  /\ Cardinality(active) < n_jobs
  /\ \E p \in Suggestions :
       study' = Append(study, [number |-> Len(study), state |-> "RUNNING",
                               params |-> p, value |-> 0])
  /\ active' = active \cup {<<"objective", Len(study)>>}
  /\ objs' = Append(objs, Plugins_get(Plugins_new, PLUGIN, <<>>).obj)
  /\ ns' = [ns EXCEPT !["_"] = Len(objs) + 1]
  /\ last' = [NoCall EXCEPT !.op = "trial"]
  /\ UNCHANGED <<pos, bound, frames, loaders, generators, buff, t6vars, t7vars,
                 params, best_params>>

\* the rest of objective(trial): report = Benchmarks.evaluate([(ID, PLUGIN,
\* params)], train_loader, ...); an exception prunes the trial, otherwise the
\* trial completes with the score
TrialEvaluate ==
  /\ At("optimize")
  /\ \E a \in active, ok \in BOOLEAN, score \in 0..1 :
       LET n == a[2]
           ID == FString("trial_", PyStr(PyInt(study[n + 1].number)))
           tests == << <<ID, Lit(PLUGIN), study[n + 1].params>> >>
           called == "train_loader" \in bound
           r == Benchmarks_evaluate(tests, loaders["train_loader"], ok)
           done == called /\ ~r.raised
       IN /\ a[1] = "objective"
          /\ study' = [study EXCEPT ![n + 1].state = IF done THEN "COMPLETE" ELSE "PRUNED",
                                    ![n + 1].value = IF done THEN score ELSE 0]
          /\ active' = active \ {a}
          /\ last' = [NoCall EXCEPT !.op = "evaluate", !.called = called,
                                    !.raised = ~done, !.tests = tests,
                                    !.loader = "train_loader",
                                    !.report = IF called THEN r.report ELSE {}]
  /\ UNCHANGED <<pos, libvars, t6vars, t7vars, params, best_params>>

\* study.best_params: the parameters of a completed trial with the lowest
\* value; ValueError when no trial completed
BestParams(st) ==
  {st[i].params : i \in {j \in DOMAIN st :
     /\ st[j].state = "COMPLETE"
     /\ \A k \in DOMAIN st : st[k].state = "COMPLETE" => st[j].value <= st[k].value}}

\* study.optimize returned; study.best_params
OptimizeDone ==
  /\ At("optimize")
  /\ Len(study) = n_trials
  /\ active = {}
  /\ last' = [NoCall EXCEPT !.op = "optimize", !.called = TRUE,
                            !.raised = (BestParams(study) = {})]
  /\ Goto(BestParams(study) = {})
  /\ UNCHANGED <<libvars, t6vars, t7vars, t8vars>>

\* best_params = study.best_params
BestParamsStmt ==
  /\ At("best_params")
  /\ IF BestParams(study) = {}
     THEN /\ last' = [NoCall EXCEPT !.op = "best_params", !.called = TRUE, !.raised = TRUE]
          /\ Goto(TRUE)
          /\ UNCHANGED <<libvars, t6vars, t7vars, t8vars>>
     ELSE /\ \E p \in BestParams(study) : best_params' = p
          /\ bound' = bound \cup {"best_params"}
          /\ last' = [NoCall EXCEPT !.op = "best_params", !.called = TRUE]
          /\ Goto(FALSE)
          /\ UNCHANGED <<frames, loaders, objs, ns, generators, buff, t6vars, t7vars,
                         params, study, active>>

\* ------------------------------------------------- tutorial 7: the dataset
\* dataset = MedNISTDataset(image_files_list, labels=image_class)
T7Dataset ==
  /\ At("t7_dataset")
  /\ image_cache' = {}
  /\ last' = [NoCall EXCEPT !.op = "t7_dataset"]
  /\ Goto(FALSE)
  /\ UNCHANGED <<libvars, t6vars, t8vars, data_dir, class_names, image_files,
                 num_each, image_files_list, image_class>>

\* MedNISTDataset.__getitem__(index): the image is read from its file unless it
\* is in image_cache, and is kept in image_cache
MedNIST_getitem(cache, index) ==
  [image_cache |-> cache \cup {index},
   ret |-> <<image_files_list[index + 1], image_class[index + 1]>>]

\* the library asks for the next image, or for one it has read before, when
\* its previous request has returned
GetItemCall ==
  /\ At("t7_iterate")
  /\ active = {}
  /\ Cardinality(image_cache) < Len(image_files_list)
  /\ \E index \in 0..Cardinality(image_cache) : active' = {<<"getitem", index>>}
  /\ last' = [NoCall EXCEPT !.op = "getitem"]
  /\ UNCHANGED <<pos, libvars, t6vars, t7vars, params, best_params, study>>

\* dataset[index] returns
GetItemReturn ==
  /\ At("t7_iterate")
  /\ \E a \in active :
       /\ a[1] = "getitem"
       /\ image_cache' = MedNIST_getitem(image_cache, a[2]).image_cache
       /\ active' = active \ {a}
  /\ last' = [NoCall EXCEPT !.op = "getitem", !.called = TRUE]
  /\ UNCHANGED <<pos, libvars, t6vars, params, best_params, study, data_dir,
                 class_names, image_files, num_each, image_files_list, image_class>>

\* every image has been read
IterateDone ==
  /\ At("t7_iterate")
  /\ active = {}
  /\ Cardinality(image_cache) = Len(image_files_list)
  /\ last' = [NoCall EXCEPT !.op = "t7_iterate"]
  /\ Goto(FALSE)
  /\ UNCHANGED <<libvars, t6vars, t7vars, t8vars>>

\* ------------------------------------------------------- specification
Next ==
  \/ \E n \in Notebooks : Start(n)
  \/ LoadDataset
  \/ SimulateNan
  \/ Impute
  \/ MakeLoader
  \/ Split
  \/ PluginsNew
  \/ DefineClass
  \/ Add
  \/ List
  \/ Get
  \/ Fit
  \/ Generate
  \/ AssertCell
  \/ SaveModel
  \/ LoadModel
  \/ Name
  \/ HyperparameterSpace
  \/ Plot
  \/ Evaluate
  \/ T6Simulate
  \/ T6Rearrange
  \/ T6Loader
  \/ T7Listing
  \/ T7Dataset
  \/ GetItemCall
  \/ GetItemReturn
  \/ IterateDone
  \/ SuggestAll
  \/ TrialAsk
  \/ TrialEvaluate
  \/ OptimizeDone
  \/ BestParamsStmt

Spec == Init /\ [][Next]_vars

\* ---------------------------------------------------------------- claims
ExampleClasses == {"ZeroOnePlugin", "sdv_ctgan_plugin"}

\* C1: in tutorial 6 the four inputs passed to TimeSeriesDataLoader
\* (temporal_dataframes, observation_data, static_data, outcome_data) have the
\* same length, whatever ids the simulation drew.
C1_InputsSameLength ==
  last.op \in {"t6_rearrange", "t6_loader"} =>
    SameLength(temporal_dataframes, observation_data, static_data, outcome_data)

\* C2: in tutorial 6, observation_data[i] lists the index of
\* temporal_dataframes[i]: as many entries as the frame has rows, the k-th
\* entry being the index label (the timepoint) of the k-th row.
C2_ObservationsAreIndex ==
  last.op \in {"t6_rearrange", "t6_loader"} =>
    /\ Len(observation_data) = Len(temporal_dataframes)
    /\ \A i \in DOMAIN temporal_dataframes :
         /\ Len(observation_data[i]) = Len(temporal_dataframes[i].rows)
         /\ \A k \in DOMAIN temporal_dataframes[i].rows :
              observation_data[i][k] = temporal_dataframes[i].index[k]

\* a subject with two observations taken at different timepoints was rearranged
C2_Witness ==
  /\ last.op = "t6_rearrange"
  /\ \E i \in DOMAIN observation_data :
       Len(observation_data[i]) >= 2 /\ observation_data[i][1] # observation_data[i][2]

\* C3: Plugin.generate never returns data that violates the constraints of
\* the training set: when the data produced by _generate does not comply
\* (always so for the fitted ZeroOnePlugin) generate raises.
C3_GenerateEnforcesTraining ==
  (last.op = "generate" /\ last.called /\ last.was_fitted) =>
    /\ ~last.raised => Satisfies(last.value, objs[last.obj].schema)
    /\ ~Satisfies(last.produced, objs[last.obj].schema) => last.raised
    /\ objs[last.obj].cls = "ZeroOnePlugin" => last.raised

\* the fitted ZeroOnePlugin produced 0/1 data in unnamed columns and generate raised
C3_Witness ==
  /\ last.op = "generate" /\ last.called /\ last.was_fitted /\ last.raised
  /\ objs[last.obj].cls = "ZeroOnePlugin"
  /\ Len(last.produced.rows) = MaxCount
  /\ ~Satisfies(last.produced, objs[last.obj].schema)

\* C4: when generate is given constraints at inference time and returns, every
\* returned row satisfies every rule; so the tutorial's assertion (some
\* generated "worst radius" exceeds 15) holds whenever a row was returned.
C4_GenerateEnforcesInference ==
  /\ (last.op = "generate" /\ last.called /\ ~last.raised) =>
        Satisfies(last.value, last.rules)
  /\ (last.op = "assert" /\ Len(last.value.rows) >= 1) => ~last.raised

\* the constrained generate of tutorial 1 returned rows and the assertion ran
C4_Witness ==
  last.op = "assert" /\ Len(last.value.rows) >= 1 /\ ~last.raised

\* C5: after generators.add(name, cls), name is in generators.list() and
\* generators.get(name, **kwargs) returns an instance of cls built with those
\* kwargs, whose name() is the name it was registered under.
C5_RegistryAddGet ==
  /\ last.op = "add" => last.name \in Range(Plugins_list(generators))
  /\ (nb = "t1" /\ last.op = "get") =>
       /\ ~last.raised
       /\ objs[last.obj].kwargs = last.kwargs
       /\ ClassDef(objs[last.obj].cls).name = last.name
       /\ last.name = "zero_one" => objs[last.obj] = ZeroOne_init(last.kwargs)
       /\ last.name = "sdv_ctgan" => objs[last.obj] = sdv_init(last.kwargs)

\* the sdv_ctgan plugin was added and then obtained with n_iter=100
C5_Witness ==
  /\ nb = "t1" /\ last.op = "get" /\ last.name = "sdv_ctgan"
  /\ objs[last.obj].model.epochs = 100
  /\ "zero_one" \in Range(Plugins_list(generators))

\* C6: fit on a loader whose data holds a missing value raises and leaves the
\* model unfitted.
C6_FitRejectsNaN ==
  (last.op = "fit" /\ last.called /\ HasNaN(last.data)) =>
    last.raised /\ ~objs[last.obj].fitted

\* fit was called on data with a missing value
C6_Witness ==
  last.op = "fit" /\ last.called /\ HasNaN(last.data) /\ last.raised

\* C7: in tutorial 9 the data of the second loader (x_imputed) has no missing
\* value, so the fit that raised on the un-imputed data completes on it, and
\* generate is then called on the fitted model with count = rows of df_.
C7_ImputedDataFits ==
  nb = "t9" =>
    /\ (last.op = "loader" /\ cell > 5) =>
          /\ loaders["loader"].df = frames["x_imputed"]
          /\ ~HasNaN(loaders["loader"].df)
    /\ (last.op = "fit" /\ cell > 5) => (last.called /\ ~last.raised /\ objs[last.obj].fitted)
    /\ last.op = "generate" =>
          /\ last.called /\ last.was_fitted
          /\ last.count = Len(frames["df_"].rows)

\* the first fit met missing values, and after imputation generate returned
C7_Witness ==
  /\ nb = "t9" /\ last.op = "generate" /\ ~last.raised
  /\ HasNaN(frames["df"])
  /\ Len(last.value.rows) >= 1

\* C8: every call of generate, plot or save on a model object comes after a
\* completed fit of that object.
C8_FitBeforeUse ==
  (last.op \in {"generate", "plot", "save"} /\ last.called) => last.was_fitted

C10_PluginInterface ==
  /\ \A c \in ExampleClasses :
       /\ Instantiable(c)
       /\ \A m \in RequiredStatic : CallOnClass(c, m) = "ok"
       /\ RequiredInstance \subseteq ClassDef(c).instance
  /\ (last.op = "get" /\ last.name \in {"zero_one", "sdv_ctgan"}) => ~last.raised
  /\ (last.op = "fit" /\ last.called /\ ~last.raised /\ objs[last.obj].cls \in ExampleClasses) =>
       last.ret = last.obj

\* both example plugins were instantiated and fitted
C10_Witness ==
  /\ last.op = "fit" /\ ~last.raised /\ objs[last.obj].cls = "sdv_ctgan_plugin"
  /\ \E r \in DOMAIN objs : objs[r].cls = "ZeroOnePlugin" /\ objs[r].fitted

\* ids holds no value twice
IdsDistinct == \A i, j \in DOMAIN ids : ids[i] = ids[j] => i = j

\* s lists every value of 0..n-1 exactly once, in any order
EachOnce(s, n) == Len(s) = n /\ \A t \in 0..(n - 1) : \E i \in DOMAIN s : s[i] = t

\* C13: in the simulated temporal_data of tutorial 6 the rows of every subject
\* carry the timepoints 0, 1, ..., num_obs-1, each exactly once (stated for
\* draws in which the ids are pairwise distinct)
C13_TimepointsPerSubject ==
  (last.op = "t6_simulate" /\ IdsDistinct) =>
    \A i \in DOMAIN ids :
      EachOnce(Col(SubjectRows(temporal_data, ids[i]), "timepoint"), num.obs)

\* the measurement columns of temporal_data
MeasureColumns == <<"temp_a", "temp_b", "temp_c">>

\* C14: after the rearrangement temporal_dataframes holds one dataframe per row
\* of static_data, in that order; the i-th dataframe is made of the
\* temporal_data rows of the i-th subject, has num_obs rows, is indexed by
\* timepoint and keeps only temp_a, temp_b, temp_c; outcome_data is aligned
\* row by row with static_data
C14_FramesPerSubject ==
  last.op = "t6_rearrange" =>
    /\ Len(temporal_dataframes) = Len(static_data.rows)
    /\ outcome_data.index = static_data.index
    /\ \A i \in DOMAIN static_data.rows :
         LET rows == SubjectRows(temporal_data, Col(static_data, "id")[i])
             f == temporal_dataframes[i]
         IN /\ Len(f.rows) = num.obs
            /\ f.columns = MeasureColumns
            /\ f.index = Col(rows, "timepoint")
            /\ f.rows = SelectCols(rows, MeasureColumns).rows

RECURSIVE SumMin(_, _)
\* sum over the first n classes of min(num_each[i], LIMIT)
SumMin(ne, n) == IF n = 0 THEN 0 ELSE SumMin(ne, n - 1) + Min(ne[n], LIMIT)

\* C15: after the file-listing loop of tutorial 7 image_files_list and
\* image_class have the same length, the sum over the classes of
\* min(num_each[i], LIMIT); position by position the file lies in the directory
\* of the class its label names; no class contributes more than LIMIT files
\* and every label is in 0..num_class-1
C15_FilesAndLabelsAligned ==
  last.op = "t7_listing" =>
    LET num_class == Len(class_names)
    IN /\ Len(image_files_list) = Len(image_class)
       /\ Len(image_class) = SumMin(num_each, num_class)
       /\ \A k \in DOMAIN image_class :
            /\ image_class[k] \in 0..(num_class - 1)
            /\ image_files_list[k][1] = class_names[image_class[k] + 1]
            /\ image_files_list[k] \in Range(image_files[image_class[k] + 1])
       /\ \A i \in 0..(num_class - 1) :
            Cardinality({k \in DOMAIN image_class : image_class[k] = i}) <= LIMIT

\* the listing found two classes, one of them with more than LIMIT files
C15_Witness ==
  /\ last.op = "t7_listing" /\ ~last.raised
  /\ Len(class_names) >= 2
  /\ \E i \in DOMAIN num_each : num_each[i] > LIMIT
  /\ \E i \in DOMAIN num_each : num_each[i] < LIMIT

\* C11: every call of Benchmarks.evaluate gets a list of 3-tuples (label
\* string, plugin-name string, kwargs dict) and a data loader; the labels of
\* one call are pairwise distinct, so the report has one entry per test
C11_EvaluateArguments ==
  (last.op = "evaluate" /\ last.called) =>
    /\ \A i \in DOMAIN last.tests :
         /\ Len(last.tests[i]) = 3
         /\ last.tests[i][1].t = "str"
         /\ last.tests[i][2].t = "str"
         /\ last.tests[i][3].t = "dict"
    /\ last.loader \in LoaderNames
    /\ last.loader \in bound
    /\ loaders[last.loader].kind # ""
    /\ \A i, j \in DOMAIN last.tests :
         last.tests[i][1] = last.tests[j][1] => i = j
    /\ ~last.raised => Cardinality(last.report) = Len(last.tests)

\* the call of tutorial 5 with one test per epsilon returned its report
C11_Witness ==
  /\ nb = "t5"
  /\ last.op = "evaluate" /\ last.called /\ ~last.raised
  /\ Len(last.tests) = 3
  /\ last.tests[1][1] = FString("test_eps_", <<"0", ".", "1">>)
  /\ last.tests[3][1] = FString("test_eps_", <<"1", "0">>)

\* C12: the code of the notebooks runs one activity at a time: at most one
\* call into notebook code (objective, MedNISTDataset.__getitem__) is open,
\* the kernel stays at the statement that made the call until it has returned,
\* and image_cache changes only through the one open __getitem__ call
C12_SingleActivity ==
  /\ Cardinality(active) <= 1
  /\ \A a \in active :
       /\ a[1] = "objective" => (At("optimize") /\ study[a[2] + 1].state = "RUNNING")
       /\ a[1] = "getitem" => At("t7_iterate")
  /\ \A i \in DOMAIN study :
       study[i].state = "RUNNING" => <<"objective", study[i].number>> \in active

\* the second trial of the study runs after the first one has finished
C12_Witness ==
  /\ active = {<<"objective", 1>>}
  /\ study[1].state \in {"COMPLETE", "PRUNED"}
  /\ study[2].state = "RUNNING"

====
